---- MODULE Spec2Model ----
(***************************************************************************)
(* Deployment scripts of the infra repository: the Traefik deployer        *)
(* (traefik/deploy.py), the Synapse deployer (synapse/deploy.py) and the   *)
(* transport helpers they share (lib/remote.py).  A remote host is         *)
(* modelled by the files the scripts write (content, modification time,    *)
(* mode), by whether the setup directories exist and by whether the host   *)
(* answers ssh.  One behaviour runs one of the two scripts, several times. *)
(***************************************************************************)
EXTENDS Integers, Sequences, FiniteSets, TLC

\* ------------------------------------------------------------------ bounds
NInst == 2        \* instances in secrets['instances']
MaxRuns == 2      \* invocations of the script in one behaviour
MaxEnv == 1       \* times the environment acts: somebody else changes a remote
                  \* file, a host stops or starts answering ssh, a template
                  \* is edited into one that does not render

\* ------------------------------------------------------------- file tables
Instances == 1..NInst
Ghost == NInst + 1        \* an instance name that is not a key of secrets['instances']
NoInstance == NInst + 2   \* the instance positional was not given
SynHost == NInst + 3      \* synapse: secrets['ssh']['host']

\* traefik/deploy.py cmd_deploy: files in declaration order; the third one
\* lives in /etc/containers/systemd, outside REMOTE_BASE
DeployFiles == <<"traefik.yml", "dynamic1.yml", "traefik.container">>
\* traefik/deploy.py cmd_diff: the files diff compares
DiffFiles == <<"traefik.yml", "dynamic1.yml">>
\* traefik/deploy.py cmd_render: the templates render prints
RenderFiles == <<"traefik.yml", "dynamic1.yml", "traefik.container">>
\* the raw secrets cmd_deploy writes, in order
SecretFiles == <<"cf_email", "cf_token">>

\* synapse/deploy.py FILES (the templates without .j2), in declaration order;
\* the remote path of the last one is computed from the secrets
FILES == <<"synapse.pod", "1-postgresql.container", "2-synapse.container",
           "homeserver.yaml", "log.config">>
\* synapse/deploy.py: the entries of FILES whose remote_path is None
Computed == {"log.config"}
\* synapse/deploy.py cmd_deploy: the raw secret
SynSecretFiles == <<"signing.key">>

Range(q) == {q[k] : k \in 1..Len(q)}
\* files whose directory is made by the mkdir of cmd_deploy (under REMOTE_BASE);
\* the others go to /etc/containers/systemd
UnderBase(f) ==
  f \in {"traefik.yml", "dynamic1.yml", "cf_email", "cf_token",
         "homeserver.yaml", "log.config", "signing.key"}

\* ------------------------------------------------------------- file values
Empty == <<>>                 \* the empty text
Stale == <<"stale">>          \* a text no template renders to
\* A modification time is kept relative to the clock: "now" when it equals the
\* time a file written at this moment gets, "past" when it is older.
NoFile == [exists |-> FALSE, content |-> Empty, mtime |-> "past", mode |-> "none"]
LocalMode == "644"            \* mode of a file made by Path.write_text
SecretMode == "600"           \* chmod 600 of write_secret_remote
File(c, t, m) == [exists |-> TRUE, content |-> c, mtime |-> t, mode |-> m]

\* the decrypted secrets: a common block and one block per instance
secrets == [common |-> [cf_email |-> <<"mail">>, cf_api_token |-> <<"token">>],
            instances |-> [i \in Instances |-> [domain |-> i]]]

\* synapse/deploy.py: the shapes of the `synapse` block of the secrets, with
\* and without the server name and the signing key
SynBlocks ==
  { [server_name |-> "hs", signing_key |-> <<"key">>],
    [server_name |-> "hs"],
    [signing_key |-> <<"key">>] }

\* the traefik script reads no `synapse` block
NoSynapse == [none |-> TRUE]

VARIABLES
  fn,         \* the helper function called on its own, its arguments and its result
  certs,      \* certs/deploy.py: the script, the local store and the target hosts
  track,      \* whether this behaviour keeps the two histories below
  clean,      \* hosts a finished diff found without difference, nothing having
              \* happened since
  pending,    \* hosts whose last deploy wrote a file and ended without the restart,
              \* the inputs and the host's files being what they were then
  lost,       \* lost[h]: files of h whose sync in this invocation did not reach h
  sops,       \* what `sops -d` did in the running invocation
  svc,        \* the script this behaviour runs: "traefik" or "synapse"
  synapse,    \* synapse: secrets['synapse']
  remote,     \* remote[h][f]: the file f of host h
  dirs,       \* dirs[h]: the setup directories exist on h
  up,         \* up[h]: h answers ssh
  pc,         \* position of the running script ("idle": none runs)
  args,       \* parsed command line of the running invocation
  queue,      \* instances main() has still to process
  cur,        \* instance being processed
  idx,        \* index of the next file (or secret) of the instance
  changed,    \* cmd_deploy's local flag
  reached,    \* reached[h]: every sync to h of this invocation so far has reached it
  report,     \* report[h][f]: what was printed for file f of h
  ops,        \* ops[h]: remote operations issued to h, in order
  st,         \* st[h]: how the processing of h ended in this invocation
  exit,       \* how the invocation ended
  err,        \* the error message printed last
  lastRead,   \* the file ssh_read_file read last, and the text it returned
  runs, env,  \* invocations so far; times the environment acted
  synced,     \* synced[h]: the last deploy of h ran to its end with every sync reaching h, and nobody else has written to h since
  preSynced,  \* synced, as it was when the invocation started
  preSame,    \* preSame[h]: files of h equal in content to the artifacts at start
  badTpl,     \* the template that fails to render ("none": all render)
  differed,   \* differed[h]: files of h whose content differed from the artifact when synced
  wrote       \* wrote[h]: files of h whose content this invocation changed

scriptVars == <<sops, lost, track, clean, pending, svc, synapse, remote, dirs, up, pc, args, queue, cur, idx, changed,
                reached, report, ops, st, exit, err, lastRead, runs, env, synced,
                preSynced, preSame, badTpl, differed, wrote>>
vars == <<fn, certs, scriptVars>>

\* --------------------------------------------------------- pure functions
\* no helper has been called on its own
NoCall == [op |-> "none"]

\* a context that hands the whole instance collection to the templates
build_context_all(s, i) ==
  [common |-> s.common, instance |-> s.instances[i], instances |-> s.instances]

\* traefik/deploy.py build_context
build_context(s, i) == [common |-> s.common, instance |-> s.instances[i]]

\* a port lookup in which the common block wins over the instance
get_ssh_port_common_first(s, i) ==
  IF "ssh_port" \in DOMAIN s.common THEN s.common.ssh_port
  ELSE IF "ssh_port" \in DOMAIN s.instances[i] THEN s.instances[i].ssh_port
  ELSE 22

\* traefik/deploy.py get_ssh_port:
\* instance.get('ssh_port', secrets['common'].get('ssh_port', 22))
get_ssh_port(s, i) ==
  IF "ssh_port" \in DOMAIN s.instances[i] THEN s.instances[i].ssh_port
  ELSE IF "ssh_port" \in DOMAIN s.common THEN s.common.ssh_port
  ELSE 22

\* traefik/deploy.py get_ssh_user:
\* instance.get('ssh_user', secrets['common'].get('ssh_user', 'root'))
get_ssh_user(s, i) ==
  IF "ssh_user" \in DOMAIN s.instances[i] THEN s.instances[i].ssh_user
  ELSE IF "ssh_user" \in DOMAIN s.common THEN s.common.ssh_user
  ELSE "root"

\* traefik/deploy.py get_target: (f"{user}@{domain}", port); the host of an
\* instance is its own domain
get_target(s, i) ==
  [user |-> get_ssh_user(s, i), host |-> s.instances[i].domain,
   port |-> get_ssh_port(s, i)]

\* traefik/deploy.py render_template: the text of a template depends on the
\* template and on the context it is rendered against, and on nothing else
render_template(tpl, ctx) == <<tpl, ctx>>

\* synapse/deploy.py: env.get_template(tpl).render(**secrets)
syn_render(tpl, syn) ==
  <<tpl, IF "server_name" \in DOMAIN syn THEN syn.server_name ELSE "">>

\* the artifact of file f of host (instance) i
Rendered(f, i) ==
  IF svc = "traefik" THEN render_template(f, build_context(secrets, i))
                     ELSE syn_render(f, synapse)

\* lib/remote.py ssh_run: the command reaches the host or an error is printed;
\* nothing is raised either way
ssh_run_ok(h) == up[h]

\* an ssh_run that prints nothing when the command fails
ssh_run_silent(h, e, i) == e

\* lib/remote.py ssh_run, lines 11-12: the last error the operator has been
\* shown once the call is back: "SSH error: ..." when the return code is not
\* 0, what it was before (e) otherwise; i is the instance being processed
ssh_run(h, e, i) ==
  IF ssh_run_ok(h) THEN e ELSE [kind |-> "ssh", name |-> i, avail |-> {}]

\* a read that hands the failure of cat back as the text
ssh_read_file_stderr(h, f) ==
  IF up[h] /\ remote[h][f].exists THEN remote[h][f].content ELSE <<"cat: error">>

\* lib/remote.py ssh_read_file: `cat path 2>/dev/null || true`, stdout returned;
\* a host that does not answer gives an empty stdout as well
ssh_read_file(h, f) ==
  IF up[h] /\ remote[h][f].exists THEN remote[h][f].content ELSE Empty

\* the transfer of rsync reaches the remote path
rsync_reaches(h, f) == up[h] /\ (UnderBase(f) => dirs[h])

\* rsync -az --checksum --itemize-changes: the itemized line printed for the
\* file. A transfer is decided by checksum; with -a the times and modes of a
\* file that is not transferred are still brought to the sender's values, and
\* that too is itemized.
rsync_itemized(local, r, reaches) ==
  IF ~reaches THEN ""
  ELSE IF ~r.exists THEN ">f+++++++++"
  ELSE IF r.content # local.content THEN ">fc.t......"
  ELSE IF r.mtime # local.mtime /\ r.mode # local.mode THEN ".f..tp....."
  ELSE IF r.mtime # local.mtime THEN ".f..t......"
  ELSE IF r.mode # local.mode THEN ".f...p....."
  ELSE ""

\* lib/remote.py rsync_file: bool(result.stdout.strip())
rsync_file(local, r, reaches) == rsync_itemized(local, r, reaches) # ""

\* the remote file after rsync_file
rsync_result(local, r, reaches) == IF reaches THEN local ELSE r

\* lib/remote.py write_secret_remote succeeds: `cat > path && chmod 600 path`
write_secret_ok(h, f) == up[h] /\ (UnderBase(f) => dirs[h])

\* a secret writer that runs ssh without check=True
write_secret_remote_unchecked(h, f, text, r) ==
  [raised |-> FALSE,
   file |-> IF write_secret_ok(h, f) THEN File(text, "now", SecretMode) ELSE r]

\* lib/remote.py write_secret_remote: the text is fed to `cat > path && chmod
\* 600 path` over ssh with check=True; r is the remote file before the call
write_secret_remote(h, f, text, r) ==
  IF write_secret_ok(h, f)
    THEN [raised |-> FALSE, file |-> File(text, "now", SecretMode)]
    ELSE [raised |-> TRUE, file |-> r]

\* what the last ssh_read_file read: `present` tells whether the host answered
\* and held the file when it was read
NoRead == [host |-> NoInstance, file |-> "none", present |-> FALSE, text |-> Empty]

Issue(h, o) == [ops EXCEPT ![h] = Append(@, o)]

\* the hosts, the synced files and the raw secrets of the running script
Hosts == IF svc = "traefik" THEN Instances ELSE {SynHost}
FileNames == IF svc = "traefik" THEN Range(DeployFiles) ELSE Range(FILES)
SecretNames == IF svc = "traefik" THEN Range(SecretFiles) ELSE Range(SynSecretFiles)
AllFiles == FileNames \cup SecretNames
Commands == {"list", "render", "diff", "deploy"}

\* every file of h holds the text its template renders to
SameContent(h) ==
  \A f \in FileNames : remote[h][f].exists /\ remote[h][f].content = Rendered(f, h)

\* certs/deploy.py: secrets["targets"], one target with a post_deploy command
\* and one without
CertTargets == <<[host |-> "web", post_deploy |-> "reload"], [host |-> "mail"]>>
CertHosts == {CertTargets[k].host : k \in 1..Len(CertTargets)}
\* cert_paths: the two files of the local store
CertFiles == {"crt", "key"}

\* certs/deploy.py before anything has been set up: no command is running, the
\* store is empty, the hosts are brand-new and answer ssh
CertsIdle ==
  [pc |-> "idle", set |-> FALSE, cmd |-> "status", force |-> FALSE, only |-> "none",
   lego |-> TRUE,
   store |-> [crt |-> [exists |-> FALSE, readable |-> FALSE, left |-> 0],
              key |-> FALSE, serial |-> 0, mode |-> "600"],
   outcome |-> "none", targets |-> <<>>, t |-> 0, step |-> "none", changed |-> FALSE,
   ops |-> [h \in CertHosts |-> <<>>],
   rep |-> [h \in CertHosts |-> [f \in CertFiles |-> "none"]],
   got |-> [h \in CertHosts |-> {}],
   perms |-> [h \in CertHosts |-> FALSE],
   remote |-> [h \in CertHosts |-> [f \in CertFiles |-> NoFile]],
   up |-> [h \in CertHosts |-> TRUE],
   exit |-> "none", runs |-> 0, env |-> 0]

\* ------------------------------------------------------------------- Init
\* Brand-new hosts that answer ssh; no script is running.
Init ==
  /\ fn = NoCall
  /\ certs = CertsIdle
  /\ sops = "ok"
  /\ svc \in {"traefik", "synapse"}
  /\ synapse \in (IF svc = "synapse" THEN SynBlocks ELSE {NoSynapse})
  /\ remote = [h \in Hosts |-> [f \in AllFiles |-> NoFile]]
  /\ dirs = [h \in Hosts |-> FALSE]
  /\ up = [h \in Hosts |-> TRUE]
  /\ pc = "idle"
  /\ args = [command |-> "list", all |-> FALSE, instance |-> NoInstance, no_restart |-> FALSE]
  /\ queue = <<>>
  /\ cur = NoInstance
  /\ idx = 0
  /\ changed = FALSE
  /\ reached = [h \in Hosts |-> FALSE]
  /\ report = [h \in Hosts |-> [f \in FileNames |-> "none"]]
  /\ ops = [h \in Hosts |-> <<>>]
  /\ st = [h \in Hosts |-> "none"]
  /\ exit = "none"
  /\ err = [kind |-> "none", name |-> NoInstance, avail |-> {}]
  /\ lastRead = NoRead
  /\ runs = 0 /\ env = 0
  /\ synced = [h \in Hosts |-> FALSE]
  /\ preSynced = [h \in Hosts |-> FALSE]
  /\ preSame = [h \in Hosts |-> FALSE]
  /\ badTpl = "none"
  /\ differed = [h \in Hosts |-> {}]
  /\ wrote = [h \in Hosts |-> {}]
  /\ lost = [h \in Hosts |-> {}]
  /\ track = FALSE
  /\ clean = {}
  /\ pending = {}

\* a renderer that hands back text for every template
render_raises_never(f) == FALSE

\* render_template / env.get_template(tpl).render(...): jinja2 raises for the
\* template that is broken, and nothing around the call catches it
render_raises(f) == f = badTpl

\* a history is kept in the behaviours that track it and stays empty in the
\* others
Kept(x) == IF track THEN x ELSE {}

\* ------------------------------------------------------------ environment
\* the clock moves on between two invocations: no remote file carries the
\* current time any more
Tick ==
  /\ pc = "idle"
  /\ clean' = {}
  /\ \E h \in Hosts, f \in AllFiles : remote[h][f].mtime = "now"
  /\ remote' = [h \in Hosts |-> [f \in AllFiles |->
                  [remote[h][f] EXCEPT !.mtime = "past"]]]
  /\ UNCHANGED <<fn, certs, track, pending, lost, sops, svc, synapse, dirs, up, pc, args, queue, cur, idx, changed, report, ops, st,
                 exit, err, lastRead, runs, env, synced, reached, preSynced, preSame,
                 badTpl, differed, wrote>>

\* somebody else rewrites a deployed file between two invocations
RemoteEdit(h, f) ==
  /\ pc = "idle" /\ env < MaxEnv /\ remote[h][f].exists
  /\ remote' = [remote EXCEPT ![h][f].content = Stale]
  /\ env' = env + 1
  /\ pending' = Kept(pending \ {h})
  /\ clean' = Kept(clean \ {h})
  /\ synced' = [synced EXCEPT ![h] = FALSE]
  /\ UNCHANGED <<fn, certs, track, lost, sops, svc, synapse, reached, dirs, up, pc, args, queue, cur, idx, changed, report,
                 ops, st, exit, err, lastRead, runs, preSynced, preSame,
                 badTpl, differed, wrote>>

\* somebody else changes the mode of a deployed file between two invocations
RemoteChmod(h, f) ==
  /\ pc = "idle" /\ env < MaxEnv /\ remote[h][f].exists
  /\ remote[h][f].mode # SecretMode
  /\ remote' = [remote EXCEPT ![h][f].mode = SecretMode]
  /\ env' = env + 1
  /\ pending' = Kept(pending \ {h})
  /\ clean' = Kept(clean \ {h})
  /\ synced' = [synced EXCEPT ![h] = FALSE]
  /\ UNCHANGED <<fn, certs, track, lost, sops, svc, synapse, reached, dirs, up, pc, args, queue, cur, idx, changed, report,
                 ops, st, exit, err, lastRead, runs, preSynced, preSame,
                 badTpl, differed, wrote>>

\* a template is edited between two invocations and no longer renders
\* (TemplateError: an undefined variable, a syntax error)
TemplateBreaks(f) ==
  /\ pc = "idle" /\ env < MaxEnv /\ badTpl = "none"
  /\ badTpl' = f
  /\ env' = env + 1
  /\ pending' = {}
  /\ clean' = {}
  /\ UNCHANGED <<fn, certs, track, lost, sops, svc, synapse, remote, dirs, up, pc, args, queue, cur, idx, changed,
                 report, ops, st, exit, err, lastRead, runs, synced, reached, preSynced,
                 preSame, differed, wrote>>

\* a host stops or starts answering ssh: between two invocations, or while it
\* is the one being processed (a change of another host's state commutes with
\* every step of the script until that host's turn)
NetFlap(h) ==
  /\ env < MaxEnv
  /\ pc = "idle" \/ h = cur
  /\ up' = [up EXCEPT ![h] = ~@]
  /\ env' = env + 1
  /\ clean' = Kept(clean \ {h})
  /\ UNCHANGED <<fn, certs, track, pending, lost, sops, svc, synapse, remote, dirs, pc, args, queue, cur, idx, changed, report,
                 ops, st, exit, err, lastRead, runs, synced, reached, preSynced,
                 preSame, badTpl, differed, wrote>>

\* ------------------------------------------------------ traefik/deploy.py
NoErr == [kind |-> "none", name |-> NoInstance, avail |-> {}]

\* the process ends: nothing more of this invocation runs
Ended(how, e) ==
  /\ pc' = "exited" /\ exit' = how /\ err' = e /\ queue' = <<>>

\* print(f"Instance '{instance_name}' not found"): the message names the
\* requested instance and nothing else
NotFoundMsg(name) == [kind |-> "notfound", name |-> name, avail |-> {}]

\* what `sops -d` can do: decrypt, fail to decrypt, or not be installed
SopsOutcomes == {"ok", "undecryptable", "missing"}

\* a decrypt_sops that swallows the failure and hands back what it has
decrypt_sops_lenient(outcome) == [ok |-> TRUE, message |-> "none"]

\* decrypt_sops: the secrets, or a message on stderr and sys.exit(1)
decrypt_sops(outcome) ==
  IF outcome = "ok" THEN [ok |-> TRUE, message |-> "none"]
  ELSE IF outcome = "undecryptable"
    THEN [ok |-> FALSE, message |-> "SOPS decryption error"]
    ELSE [ok |-> FALSE, message |-> "SOPS not installed"]

\* the exit status of the process for each way it ends: a command that
\* returns (also after 'not found') exits 0, parser.error exits 2, sys.exit(1)
\* and an uncaught exception exit 1
ExitStatus(how) ==
  IF how \in {"ok", "error"} THEN 0 ELSE IF how = "usage" THEN 2 ELSE 1

\* main(), lines 285-304: parse the command line, decrypt, run list at once,
\* determine the target instances and enter the command for the first of them
main(cmd, all, inst, norestart, dec) ==
  /\ svc = "traefik"
  /\ pc = "idle" /\ runs < MaxRuns
  /\ runs' = runs + 1
  /\ args' = [command |-> cmd, all |-> all, instance |-> inst, no_restart |-> norestart]
  /\ sops' = dec
  /\ preSynced' = synced
  /\ preSame' = [h \in Hosts |-> SameContent(h)]
  /\ IF ~decrypt_sops(dec).ok
       THEN /\ Ended("decrypt", [kind |-> decrypt_sops(dec).message, name |-> NoInstance,
                                 avail |-> {}])
            /\ UNCHANGED cur
     ELSE IF cmd = "list"
       THEN Ended("ok", NoErr) /\ UNCHANGED cur
     ELSE IF all \/ inst # NoInstance
       THEN LET instances == IF all THEN [k \in 1..NInst |-> k] ELSE <<inst>>
            IN /\ cur' = Head(instances)
               /\ queue' = Tail(instances)
               /\ pc' = cmd /\ exit' = "none" /\ err' = NoErr
     ELSE /\ Ended("usage", [kind |-> "usage", name |-> NoInstance, avail |-> {}])
          /\ UNCHANGED cur
  /\ UNCHANGED <<fn, certs, track, pending, clean, lost, svc, synapse, remote, dirs, up, env, synced, reached, badTpl, idx,
                 changed, report, ops, st, lastRead, differed, wrote>>

\* the deploy of h changed the text of a file of h and restart_cmd was not
\* run for h
RestartOwed(h) ==
  wrote[h] # {} /\ \A k \in DOMAIN ops[h] : ops[h][k] # "restart"

\* the process is gone, and what it held and printed with it
ProcessExit ==
  /\ pc = "exited"
  /\ pc' = "idle"
  /\ pending' = Kept(IF args.command = "deploy"
                       THEN {h \in Hosts : IF st[h] = "none" THEN h \in pending
                                                            ELSE RestartOwed(h)}
                       ELSE pending)
  /\ clean' = Kept(IF args.command = "diff" THEN clean ELSE {})
  /\ sops' = "ok"
  /\ lost' = [h \in Hosts |-> {}]
  /\ args' = [command |-> "list", all |-> FALSE, instance |-> NoInstance, no_restart |-> FALSE]
  /\ queue' = <<>> /\ cur' = NoInstance /\ idx' = 0 /\ changed' = FALSE
  /\ report' = [h \in Hosts |-> [f \in FileNames |-> "none"]]
  /\ ops' = [h \in Hosts |-> <<>>]
  /\ st' = [h \in Hosts |-> "none"]
  /\ exit' = "none" /\ err' = NoErr /\ lastRead' = NoRead
  /\ preSynced' = [h \in Hosts |-> FALSE]
  /\ preSame' = [h \in Hosts |-> FALSE]
  /\ differed' = [h \in Hosts |-> {}]
  /\ wrote' = [h \in Hosts |-> {}]
  /\ reached' = [h \in Hosts |-> FALSE]
  /\ UNCHANGED <<fn, certs, track, svc, synapse, remote, dirs, up, runs, env, synced, badTpl>>

\* a command returns into the loop of main(): on to the next instance, or
\* main() returns and the process ends
ReturnToMain(e) ==
  IF queue = <<>> THEN Ended("ok", e)
                  ELSE pc' = "main" /\ err' = e /\ UNCHANGED <<exit, queue>>

\* main(), lines 302-308: the loop takes the next instance
MainLoop ==
  /\ pc = "main" /\ queue # <<>>
  /\ cur' = Head(queue)
  /\ queue' = Tail(queue)
  /\ pc' = args.command
  /\ UNCHANGED <<exit, err>>
  /\ UNCHANGED <<fn, certs, track, pending, clean, lost, sops, svc, synapse, remote, dirs, up, args, idx, changed, report, ops, st,
                 lastRead, runs, env, synced, reached, preSynced, preSame,
                 badTpl, differed, wrote>>

\* cmd_render: the instance check, then every template rendered and printed
cmd_render ==
  /\ pc = "render"
  /\ IF cur \notin DOMAIN secrets.instances
       THEN /\ Ended("error", NotFoundMsg(cur))
            /\ UNCHANGED st
     ELSE IF \E k \in 1..Len(RenderFiles) : RenderFiles[k] = badTpl
       THEN /\ Ended("crash", [kind |-> "render", name |-> cur, avail |-> {}])
            /\ st' = [st EXCEPT ![cur] = "crashed"]
     ELSE /\ st' = [st EXCEPT ![cur] = "done"]
          /\ ReturnToMain(err)
  /\ UNCHANGED <<fn, certs, track, pending, clean, lost, sops, svc, synapse, remote, dirs, up, args, cur, idx, changed, report, ops,
                 lastRead, runs, env, synced, reached, preSynced, preSame,
                 badTpl, differed, wrote>>

\* a diff that makes the remote directories as deploy does
CmdDiffBeginMkdir ==
  /\ pc = "diff"
  /\ IF cur \notin DOMAIN secrets.instances
       THEN /\ Ended("error", NotFoundMsg(cur))
            /\ UNCHANGED <<idx, ops, dirs>>
       ELSE /\ idx' = 1
            /\ ops' = Issue(get_target(secrets, cur).host, "mkdir")
            /\ dirs' = [dirs EXCEPT ![get_target(secrets, cur).host] = @ \/ ssh_run_ok(get_target(secrets, cur).host)]
            /\ pc' = "diff_file"
            /\ UNCHANGED <<exit, err, queue>>
  /\ UNCHANGED <<fn, certs, track, pending, clean, lost, sops, svc, synapse, remote, up, args, cur, changed, report, st,
                 lastRead, runs, env, synced, reached, preSynced, preSame,
                 badTpl, differed, wrote>>

\* cmd_diff, lines 143-153: the instance check, the context and the target
CmdDiffBegin ==
  /\ pc = "diff"
  /\ IF cur \notin DOMAIN secrets.instances
       THEN /\ Ended("error", NotFoundMsg(cur))
            /\ UNCHANGED idx
       ELSE /\ idx' = 1
            /\ pc' = "diff_file"
            /\ UNCHANGED <<exit, err, queue>>
  /\ UNCHANGED <<fn, certs, track, pending, clean, lost, sops, svc, synapse, remote, dirs, up, args, cur, changed, report, ops, st,
                 lastRead, runs, env, synced, reached, preSynced, preSame,
                 badTpl, differed, wrote>>

\* what a finished diff printed holds no "differs" line
NoDifference(rep, files) == \A k \in 1..Len(files) : rep[files[k]] = "same"

\* cmd_diff, lines 155-173: one file rendered, read from the host and compared
CmdDiffFile ==
  /\ pc = "diff_file"
  /\ LET f == DiffFiles[idx]
         h == get_target(secrets, cur).host
     IN IF render_raises(f)
          THEN /\ Ended("crash", [kind |-> "render", name |-> cur, avail |-> {}])
               /\ st' = [st EXCEPT ![cur] = "crashed"]
               /\ UNCHANGED <<idx, report, ops, lastRead, clean>>
          ELSE /\ lastRead' = [host |-> h, file |-> f,
                              present |-> up[h] /\ remote[h][f].exists,
                              text |-> ssh_read_file(h, f)]
               /\ ops' = Issue(h, "read")
               /\ report' = [report EXCEPT ![cur][f] =
                     IF Rendered(f, cur) = ssh_read_file(h, f) THEN "same" ELSE "differs"]
               /\ IF idx = Len(DiffFiles)
                    THEN /\ st' = [st EXCEPT ![cur] = "done"]
                         /\ ReturnToMain(err) /\ idx' = 0
                         /\ clean' = Kept(IF NoDifference(report'[cur], DiffFiles)
                                             THEN clean \cup {h} ELSE clean \ {h})
                    ELSE /\ idx' = idx + 1
                         /\ UNCHANGED <<st, pc, exit, err, queue, clean>>
  /\ UNCHANGED <<fn, certs, track, pending, lost, sops, svc, synapse, remote, dirs, up, args, cur, changed, runs, env,
                 synced, reached, preSynced, preSame, badTpl, differed, wrote>>

\* cmd_deploy, lines 182-206: the instance check, the context and the target,
\* then the remote directories are made (ssh_run prints a failure and returns)
CmdDeployBegin ==
  /\ pc = "deploy"
  /\ IF cur \notin DOMAIN secrets.instances
       THEN /\ Ended("error", NotFoundMsg(cur))
            /\ UNCHANGED <<idx, changed, ops, dirs, st, synced, reached>>
       ELSE LET h == get_target(secrets, cur).host
            IN /\ ops' = Issue(h, "mkdir")
               /\ dirs' = [dirs EXCEPT ![h] = @ \/ ssh_run_ok(h)]
               /\ err' = ssh_run(h, err, cur)
               /\ changed' = FALSE
               /\ reached' = [reached EXCEPT ![h] = TRUE]
               /\ synced' = [synced EXCEPT ![h] = FALSE]
               /\ idx' = 1
               /\ st' = [st EXCEPT ![cur] = "running"]
               /\ pc' = "sync"
               /\ UNCHANGED <<exit, queue>>
  /\ UNCHANGED <<fn, certs, track, pending, clean, lost, sops, svc, synapse, remote, up, args, cur, report, lastRead, runs, env,
                 preSynced, preSame, badTpl, differed, wrote>>

\* a flag that is overwritten by every file instead of accumulated
NextChangedLast(c, r) == r

\* the flag after one file: `changed = True` when rsync_file said so
NextChanged(c, r) == c \/ r

\* a loop that leaves before the last file
LastFileEarly(k) == k >= Len(DeployFiles) - 1

\* `for tpl_name, (local_name, remote_path) in files.items()`: the loop is
\* over when the last file of the table has been handled
LastFile(k) == k = Len(DeployFiles)

\* cmd_deploy, lines 209-218: one file rendered, written to the temporary
\* directory and synced; what rsync_file returns is printed and remembered
CmdDeploySync ==
  /\ pc = "sync"
  /\ LET f == DeployFiles[idx]
         h == get_target(secrets, cur).host
         local == File(Rendered(f, cur), "now", LocalMode)
         r == remote[h][f]
         reaches == rsync_reaches(h, f)
         res == rsync_file(local, r, reaches)
     IN IF render_raises(f)
          THEN /\ Ended("crash", [kind |-> "render", name |-> cur, avail |-> {}])
               /\ st' = [st EXCEPT ![cur] = "crashed"]
               /\ UNCHANGED <<idx, changed, report, ops, remote, differed, wrote, reached,
                              lost>>
          ELSE /\ ops' = Issue(h, "rsync")
               /\ remote' = [remote EXCEPT ![h][f] = rsync_result(local, r, reaches)]
               /\ differed' = [differed EXCEPT ![h] =
                     IF ~r.exists \/ r.content # local.content THEN @ \cup {f} ELSE @]
               /\ wrote' = [wrote EXCEPT ![h] =
                     IF reaches /\ (~r.exists \/ r.content # local.content)
                       THEN @ \cup {f} ELSE @]
               /\ reached' = [reached EXCEPT ![h] = @ /\ reaches]
               /\ lost' = [lost EXCEPT ![h] = IF reaches THEN @ ELSE @ \cup {f}]
               /\ report' = [report EXCEPT ![cur][f] = IF res THEN "updated" ELSE "unchanged"]
               /\ changed' = NextChanged(changed, res)
               /\ IF LastFile(idx)
                    THEN pc' = "secrets" /\ idx' = 1
                    ELSE pc' = pc /\ idx' = idx + 1
               /\ UNCHANGED <<exit, err, queue, st>>
  /\ UNCHANGED <<fn, certs, track, pending, clean, sops, svc, synapse, dirs, up, args, cur, lastRead, runs, env, synced,
                 preSynced, preSame, badTpl>>

\* the text of a raw secret, lines 221-222
SecretText(f) ==
  IF f = "cf_email" THEN secrets.common.cf_email ELSE secrets.common.cf_api_token

\* a deploy that writes the raw secrets only when a file changed
CmdDeploySecretIfChanged ==
  /\ pc = "secrets"
  /\ LET f == SecretFiles[idx]
         h == get_target(secrets, cur).host
     IN IF ~changed
          THEN /\ pc' = "restart" /\ idx' = 0
               /\ UNCHANGED <<ops, remote, exit, err, queue, st>>
          ELSE /\ ops' = Issue(h, "secret")
               /\ IF write_secret_ok(h, f)
                    THEN /\ remote' = [remote EXCEPT ![h][f] = File(SecretText(f), "now", SecretMode)]
                         /\ IF idx = Len(SecretFiles)
                              THEN pc' = "restart" /\ idx' = 0
                              ELSE pc' = pc /\ idx' = idx + 1
                         /\ UNCHANGED <<exit, err, queue, st>>
                    ELSE /\ Ended("crash", [kind |-> "secret", name |-> cur, avail |-> {}])
                         /\ st' = [st EXCEPT ![cur] = "crashed"]
                         /\ UNCHANGED <<remote, idx>>
  /\ UNCHANGED <<fn, certs, track, pending, clean, lost, sops, svc, synapse, dirs, up, args, cur, changed, report, lastRead, runs,
                 env, synced, reached, preSynced, preSame, badTpl, differed, wrote>>

\* cmd_deploy, lines 221-225: one raw secret written; write_secret_remote runs
\* ssh with check=True, so a failure raises and nothing catches it
CmdDeploySecret ==
  /\ pc = "secrets"
  /\ LET f == SecretFiles[idx]
         h == get_target(secrets, cur).host
         w == write_secret_remote(h, f, SecretText(f), remote[h][f])
     IN /\ ops' = Issue(h, "secret")
        /\ remote' = [remote EXCEPT ![h][f] = w.file]
        /\ IF w.raised
             THEN /\ Ended("crash", [kind |-> "secret", name |-> cur, avail |-> {}])
                  /\ st' = [st EXCEPT ![cur] = "crashed"]
                  /\ UNCHANGED idx
             ELSE /\ IF idx = Len(SecretFiles)
                       THEN pc' = "restart" /\ idx' = 0
                       ELSE pc' = pc /\ idx' = idx + 1
                  /\ UNCHANGED <<exit, err, queue, st>>
  /\ UNCHANGED <<fn, certs, track, pending, clean, lost, sops, svc, synapse, dirs, up, args, cur, changed, report, lastRead, runs,
                 env, synced, reached, preSynced, preSame, badTpl, differed, wrote>>

\* `if restart and changed`, line 228
RestartDue(restart, c) == restart /\ c

\* cmd_deploy, lines 227-234: the restart decision; the instance is done
CmdDeployRestart ==
  /\ pc = "restart"
  /\ LET h == get_target(secrets, cur).host
     IN IF RestartDue(~args.no_restart, changed)
          THEN /\ ops' = Issue(h, "restart")
               /\ ReturnToMain(ssh_run(h, err, cur))
          ELSE /\ UNCHANGED ops
               /\ ReturnToMain(err)
  /\ st' = [st EXCEPT ![cur] = "done"]
  /\ synced' = [synced EXCEPT ![cur] = reached[cur]]
  /\ UNCHANGED <<fn, certs, track, pending, clean, lost, sops, svc, synapse, remote, dirs, up, args, cur, idx, changed, report,
                 lastRead, runs, env, reached, preSynced, preSame,
                 badTpl, differed, wrote>>

\* ------------------------------------------------------ synapse/deploy.py
\* get_remote_path raises: secrets['synapse']['server_name'] is a KeyError
\* when the secrets do not hold the name
path_raises(f, syn) == f \in Computed /\ "server_name" \notin DOMAIN syn

\* get_remote_path: the literal path of the table, or the log config's path
\* built from the server name
get_remote_path(f, syn) ==
  IF f \notin Computed THEN <<"literal", f>>
                        ELSE <<"/opt/podman/synapse/data", syn.server_name, "log.config">>

\* main(): parse the command line, decrypt, dispatch to the command
syn_main(cmd, norestart, dec) ==
  /\ svc = "synapse"
  /\ pc = "idle" /\ runs < MaxRuns
  /\ runs' = runs + 1
  /\ args' = [command |-> cmd, all |-> FALSE, instance |-> NoInstance, no_restart |-> norestart]
  /\ sops' = dec
  /\ preSynced' = synced
  /\ preSame' = [h \in Hosts |-> SameContent(h)]
  /\ IF ~decrypt_sops(dec).ok
       THEN /\ Ended("decrypt", [kind |-> decrypt_sops(dec).message, name |-> NoInstance,
                                 avail |-> {}])
            /\ UNCHANGED <<cur, idx>>
       ELSE /\ cur' = SynHost
            /\ idx' = 1
            /\ pc' = IF cmd = "render" THEN "s_render"
                     ELSE IF cmd = "diff" THEN "s_diff" ELSE "s_deploy"
            /\ UNCHANGED <<queue, exit, err>>
  /\ UNCHANGED <<fn, certs, track, pending, clean, lost, svc, synapse, remote, dirs, up, env, synced, reached, badTpl,
                 changed, report, ops, st, lastRead, differed, wrote>>

\* a file of FILES cannot be processed: its path or its text raises
SynRaises(f) == path_raises(f, synapse) \/ render_raises(f)
SynError(f) ==
  [kind |-> IF path_raises(f, synapse) THEN "path" ELSE "render",
   name |-> cur, avail |-> {}]

\* cmd_render: every file's path resolved and its template rendered and printed
syn_cmd_render ==
  /\ pc = "s_render"
  /\ IF \E k \in 1..Len(FILES) : SynRaises(FILES[k])
       THEN /\ Ended("crash", SynError(FILES[CHOOSE k \in 1..Len(FILES) :
                      /\ SynRaises(FILES[k])
                      /\ \A j \in 1..(k - 1) : ~SynRaises(FILES[j])]))
            /\ st' = [st EXCEPT ![cur] = "crashed"]
       ELSE /\ Ended("ok", err)
            /\ st' = [st EXCEPT ![cur] = "done"]
  /\ UNCHANGED <<fn, certs, track, pending, clean, lost, sops, svc, synapse, remote, dirs, up, args, cur, idx, changed, report,
                 ops, lastRead, runs, env, synced, reached, preSynced, preSame,
                 badTpl, differed, wrote>>

\* cmd_diff: one file's path resolved, its template rendered, the remote file
\* read and compared
SynCmdDiffFile ==
  /\ pc = "s_diff"
  /\ LET f == FILES[idx]
         h == cur
     IN IF SynRaises(f)
          THEN /\ Ended("crash", SynError(f))
               /\ st' = [st EXCEPT ![cur] = "crashed"]
               /\ UNCHANGED <<idx, report, ops, lastRead, clean>>
          ELSE /\ lastRead' = [host |-> h, file |-> f,
                              present |-> up[h] /\ remote[h][f].exists,
                              text |-> ssh_read_file(h, f)]
               /\ ops' = Issue(h, "read")
               /\ report' = [report EXCEPT ![cur][f] =
                     IF Rendered(f, cur) = ssh_read_file(h, f) THEN "same" ELSE "differs"]
               /\ IF idx = Len(FILES)
                    THEN /\ st' = [st EXCEPT ![cur] = "done"]
                         /\ Ended("ok", err) /\ idx' = 0
                         /\ clean' = Kept(IF NoDifference(report'[cur], FILES)
                                             THEN clean \cup {h} ELSE clean \ {h})
                    ELSE /\ idx' = idx + 1
                         /\ UNCHANGED <<st, pc, exit, err, queue, clean>>
  /\ UNCHANGED <<fn, certs, track, pending, lost, sops, svc, synapse, remote, dirs, up, args, cur, changed, runs, env,
                 synced, reached, preSynced, preSame, badTpl, differed, wrote>>

\* cmd_deploy, lines 72-77: the target, then the setup directories are made
SynCmdDeployBegin ==
  /\ pc = "s_deploy"
  /\ LET h == cur
     IN /\ ops' = Issue(h, "mkdir")
        /\ dirs' = [dirs EXCEPT ![h] = @ \/ ssh_run_ok(h)]
        /\ err' = ssh_run(h, err, cur)
        /\ changed' = FALSE
        /\ reached' = [reached EXCEPT ![h] = TRUE]
        /\ synced' = [synced EXCEPT ![h] = FALSE]
        /\ idx' = 1
        /\ st' = [st EXCEPT ![cur] = "running"]
        /\ pc' = "s_sync"
  /\ UNCHANGED <<fn, certs, track, pending, clean, lost, sops, svc, synapse, remote, up, args, queue, cur, report, exit,
                 lastRead, runs, env, preSynced, preSame, badTpl, differed, wrote>>

\* cmd_deploy, lines 80-89: one file's path resolved, its template rendered,
\* the text written to the temporary directory and synced
SynCmdDeploySync ==
  /\ pc = "s_sync"
  /\ LET f == FILES[idx]
         h == cur
         local == File(Rendered(f, cur), "now", LocalMode)
         r == remote[h][f]
         reaches == rsync_reaches(h, f)
         res == rsync_file(local, r, reaches)
     IN IF SynRaises(f)
          THEN /\ Ended("crash", SynError(f))
               /\ st' = [st EXCEPT ![cur] = "crashed"]
               /\ UNCHANGED <<idx, changed, report, ops, remote, differed, wrote, reached,
                              lost>>
          ELSE /\ ops' = Issue(h, "rsync")
               /\ remote' = [remote EXCEPT ![h][f] = rsync_result(local, r, reaches)]
               /\ differed' = [differed EXCEPT ![h] =
                     IF ~r.exists \/ r.content # local.content THEN @ \cup {f} ELSE @]
               /\ wrote' = [wrote EXCEPT ![h] =
                     IF reaches /\ (~r.exists \/ r.content # local.content)
                       THEN @ \cup {f} ELSE @]
               /\ reached' = [reached EXCEPT ![h] = @ /\ reaches]
               /\ lost' = [lost EXCEPT ![h] = IF reaches THEN @ ELSE @ \cup {f}]
               /\ report' = [report EXCEPT ![cur][f] = IF res THEN "updated" ELSE "unchanged"]
               /\ changed' = NextChanged(changed, res)
               /\ IF idx = Len(FILES)
                    THEN pc' = "s_secret" /\ idx' = 1
                    ELSE pc' = pc /\ idx' = idx + 1
               /\ UNCHANGED <<exit, err, queue, st>>
  /\ UNCHANGED <<fn, certs, track, pending, clean, sops, svc, synapse, dirs, up, args, cur, lastRead, runs, env, synced,
                 preSynced, preSame, badTpl>>

\* cmd_deploy, lines 92-96: the signing key, when the secrets hold one, is
\* written with write_secret_remote, whose failure raises
SynCmdDeploySecret ==
  /\ pc = "s_secret"
  /\ LET f == SynSecretFiles[idx]
         h == cur
     IN IF "signing_key" \notin DOMAIN synapse
          THEN /\ pc' = "s_restart" /\ idx' = 0
               /\ UNCHANGED <<ops, remote, exit, err, queue, st>>
        ELSE IF "server_name" \notin DOMAIN synapse
          THEN /\ Ended("crash", [kind |-> "path", name |-> cur, avail |-> {}])
               /\ st' = [st EXCEPT ![cur] = "crashed"]
               /\ UNCHANGED <<ops, remote, idx>>
        ELSE LET w == write_secret_remote(h, f, synapse.signing_key, remote[h][f])
             IN /\ ops' = Issue(h, "secret")
                /\ remote' = [remote EXCEPT ![h][f] = w.file]
                /\ IF w.raised
                     THEN /\ Ended("crash", [kind |-> "secret", name |-> cur, avail |-> {}])
                          /\ st' = [st EXCEPT ![cur] = "crashed"]
                          /\ UNCHANGED idx
                     ELSE /\ pc' = "s_restart" /\ idx' = 0
                          /\ UNCHANGED <<exit, err, queue, st>>
  /\ UNCHANGED <<fn, certs, track, pending, clean, lost, sops, svc, synapse, dirs, up, args, cur, changed, report, lastRead,
                 runs, env, synced, reached, preSynced, preSame, badTpl, differed,
                 wrote>>

\* cmd_deploy, lines 98-104: the restart decision; the script is done
SynCmdDeployRestart ==
  /\ pc = "s_restart"
  /\ LET h == cur
     IN IF RestartDue(~args.no_restart, changed)
          THEN /\ ops' = Issue(h, "restart")
               /\ Ended("ok", ssh_run(h, err, cur))
          ELSE /\ Ended("ok", err)
               /\ UNCHANGED ops
  /\ st' = [st EXCEPT ![cur] = "done"]
  /\ synced' = [synced EXCEPT ![cur] = reached[cur]]
  /\ UNCHANGED <<fn, certs, track, pending, clean, lost, sops, svc, synapse, remote, dirs, up, args, cur, idx, changed, report,
                 lastRead, runs, env, reached, preSynced, preSame, badTpl,
                 differed, wrote>>

\* ------------------------------------------------------------------- Spec
\* The command lines tried: --all excludes the positional, --no-restart goes
\* with deploy; main() does not look at the command line before decrypt_sops
\* returns, so a failing decryption is tried with --all alone.
Next ==
  \/ \E cmd \in Commands, all \in BOOLEAN, inst \in Instances \cup {Ghost, NoInstance},
        nr \in BOOLEAN, dec \in SopsOutcomes :
        /\ (all => inst = NoInstance)
        /\ (nr => cmd = "deploy")
        /\ (dec # "ok" => all /\ ~nr)
        /\ main(cmd, all, inst, nr, dec)
  \/ \E cmd \in {"render", "diff", "deploy"}, nr \in BOOLEAN, dec \in SopsOutcomes :
        /\ (nr => cmd = "deploy")
        /\ (dec # "ok" => ~nr)
        /\ syn_main(cmd, nr, dec)
  \/ syn_cmd_render
  \/ SynCmdDiffFile
  \/ SynCmdDeployBegin
  \/ SynCmdDeploySync
  \/ SynCmdDeploySecret
  \/ SynCmdDeployRestart
  \/ ProcessExit
  \/ Tick
  \/ MainLoop
  \/ cmd_render
  \/ CmdDiffBegin
  \/ CmdDiffFile
  \/ CmdDeployBegin
  \/ CmdDeploySync
  \/ CmdDeploySecret
  \/ CmdDeployRestart
  \/ \E h \in Hosts, f \in FileNames : RemoteEdit(h, f)
  \/ \E h \in Hosts, f \in FileNames : RemoteChmod(h, f)
  \/ \E h \in Hosts : NetFlap(h)
  \/ \E f \in FileNames : TemplateBreaks(f)

Spec == Init /\ [][Next]_vars

\* what a complete deploy leaves on a host once the clock has moved on: every
\* file holds its rendered text, every raw secret its text with mode 600
Deployed(h) ==
  [f \in AllFiles |->
     IF f \in FileNames THEN File(Rendered(f, h), "past", LocalMode)
     ELSE IF svc = "traefik" THEN File(SecretText(f), "past", SecretMode)
     ELSE IF "signing_key" \in DOMAIN synapse
       THEN File(synapse.signing_key, "past", SecretMode)
       ELSE NoFile]

\* The scripts are run against hosts that are brand-new or that an earlier
\* complete deploy of the same secrets and templates has set up (a synapse
\* deploy completes only with a server name in the secrets).
PreviewInit ==
  /\ fn = NoCall
  /\ certs = CertsIdle
  /\ sops = "ok"
  /\ svc \in {"traefik", "synapse"}
  /\ synapse \in (IF svc = "synapse" THEN SynBlocks ELSE {NoSynapse})
  /\ up = [h \in Hosts |-> TRUE]
  /\ pc = "idle"
  /\ args = [command |-> "list", all |-> FALSE, instance |-> NoInstance, no_restart |-> FALSE]
  /\ queue = <<>>
  /\ cur = NoInstance
  /\ idx = 0
  /\ changed = FALSE
  /\ reached = [h \in Hosts |-> FALSE]
  /\ report = [h \in Hosts |-> [f \in FileNames |-> "none"]]
  /\ ops = [h \in Hosts |-> <<>>]
  /\ st = [h \in Hosts |-> "none"]
  /\ exit = "none"
  /\ err = [kind |-> "none", name |-> NoInstance, avail |-> {}]
  /\ lastRead = NoRead
  /\ runs = 0 /\ env = 0
  /\ preSynced = [h \in Hosts |-> FALSE]
  /\ preSame = [h \in Hosts |-> FALSE]
  /\ badTpl = "none"
  /\ differed = [h \in Hosts |-> {}]
  /\ wrote = [h \in Hosts |-> {}]
  /\ lost = [h \in Hosts |-> {}]
  /\ track = TRUE
  /\ clean = {}
  /\ pending = {}
  /\ \E earlier \in BOOLEAN :
       /\ earlier /\ svc = "synapse" => "server_name" \in DOMAIN synapse
       /\ remote = [h \in Hosts |-> IF earlier THEN Deployed(h)
                                               ELSE [f \in AllFiles |-> NoFile]]
       /\ dirs = [h \in Hosts |-> earlier]
       /\ synced = [h \in Hosts |-> earlier]

PreviewSpec == PreviewInit /\ [][Next]_vars

\* ------------------------------------------- the helpers, called on their own
\* instance names of a secrets file
Names == {"a", "b"}
\* secrets['common']: the Cloudflare fields, and optionally ssh_port, ssh_user
CommonBlocks ==
  LET cf == [cf_email |-> <<"mail">>, cf_api_token |-> <<"token">>]
  IN {cf} \cup {[cf_email |-> cf.cf_email, cf_api_token |-> cf.cf_api_token,
                  ssh_port |-> 2200]}
          \cup {[cf_email |-> cf.cf_email, cf_api_token |-> cf.cf_api_token,
                  ssh_user |-> "admin"]}
          \cup {[cf_email |-> cf.cf_email, cf_api_token |-> cf.cf_api_token,
                  ssh_port |-> 2200, ssh_user |-> "admin"]}
\* secrets['instances'][name]: a domain, and optionally ssh_port, ssh_user
InstanceBlocks ==
  UNION {{[domain |-> d], [domain |-> d, ssh_port |-> 2222],
          [domain |-> d, ssh_user |-> "deploy"],
          [domain |-> d, ssh_port |-> 2222, ssh_user |-> "deploy"]} :
         d \in {"one.example", "two.example"}}
\* the decrypted secrets files
SecretsFiles == [common : CommonBlocks, instances : [Names -> InstanceBlocks]]

\* build_context is called for one instance on two secrets files, and every
\* template is rendered against the two contexts
CallBuildContext ==
  /\ fn = NoCall /\ svc = "traefik"
  /\ \E s1 \in SecretsFiles, s2 \in SecretsFiles, a \in Names :
        fn' = [op |-> "build_context", s1 |-> s1, s2 |-> s2, instance |-> a,
               ctx1 |-> build_context(s1, a), ctx2 |-> build_context(s2, a),
               out1 |-> [f \in Range(RenderFiles) |-> render_template(f, build_context(s1, a))],
               out2 |-> [f \in Range(RenderFiles) |-> render_template(f, build_context(s2, a))]]
  /\ UNCHANGED <<certs, scriptVars>>

\* secrets['synapse'] with and without a server name and a signing key
SynapseBlocks ==
  SynBlocks \cup {[server_name |-> "matrix.example", signing_key |-> <<"key">>],
                  [server_name |-> "matrix.example"],
                  [other |-> TRUE]}

\* synapse/deploy.py get_remote_path: the exception it ends with ("none": it
\* returns). A missing server_name is the KeyError of the subscript; an entry
\* without a path that is not the log config is the ValueError of line 40.
get_remote_path_raises(f, syn) ==
  IF path_raises(f, syn) THEN "KeyError" ELSE "none"

\* get_remote_path is called for one entry of FILES
CallGetRemotePath ==
  /\ fn = NoCall /\ svc = "synapse"
  /\ \E f \in Range(FILES), syn \in SynapseBlocks :
        fn' = [op |-> "get_remote_path", tpl |-> f, synapse |-> syn,
               raised |-> get_remote_path_raises(f, syn),
               path |-> IF get_remote_path_raises(f, syn) = "none"
                          THEN get_remote_path(f, syn) ELSE <<>>]
  /\ UNCHANGED <<certs, scriptVars>>

\* ------------------------------------------------------- certs/deploy.py
RENEW_DAYS == 30

\* hours from now to the expiry of the stored certificate that are tried: an
\* expired one, and ones around 25, 30, 31 and 45 days
HoursLeft == {0 - 30, 0, 599, 600, 719, 720, 743, 744, 767, 768, 1080, 1100}

\* the stored certificate: absent, one openssl cannot read, or one that expires
\* `left` hours from now
StoredCerts ==
  {[exists |-> FALSE, readable |-> FALSE, left |-> 0],
   [exists |-> TRUE, readable |-> FALSE, left |-> 0]}
  \cup {[exists |-> TRUE, readable |-> TRUE, left |-> h] : h \in HoursLeft}

\* read_expiry: None when openssl fails, else the expiry date (as hours from now)
read_expiry(cert) ==
  IF cert.readable THEN [none |-> FALSE, left |-> cert.left]
                   ELSE [none |-> TRUE, left |-> 0]

\* (expiry - datetime.now(timezone.utc)).days: whole days, rounded down
DaysLeft(expiry) == expiry.left \div 24

\* a threshold test that also skips at exactly RENEW_DAYS
issue_skips_at_threshold(cert, force) ==
  /\ cert.exists /\ ~force
  /\ ~read_expiry(cert).none
  /\ DaysLeft(read_expiry(cert)) >= RENEW_DAYS

\* issue, lines 80-92: the certificate is left alone
issue_skips(cert, force) ==
  /\ cert.exists /\ ~force
  /\ ~read_expiry(cert).none
  /\ DaysLeft(read_expiry(cert)) > RENEW_DAYS

\* issue, lines 73-92: how the call goes on: it exits because lego is not
\* installed, it returns False without a request, or it requests the
\* certificate from the ACME server
issue(lego, cert, force) ==
  IF ~lego THEN "exit"
  ELSE IF issue_skips(cert, force) THEN "skipped"
  ELSE "requested"

\* issue is called on a stored certificate
CallIssue ==
  /\ fn = NoCall
  /\ \E lego \in BOOLEAN, cert \in StoredCerts, force \in BOOLEAN :
        fn' = [op |-> "issue", lego |-> lego, cert |-> cert, force |-> force,
               outcome |-> issue(lego, cert, force)]
  /\ UNCHANGED <<certs, scriptVars>>

\* status, lines 197-206: the mark printed on the status line
status(cert) ==
  IF ~cert.exists THEN "not issued"
  ELSE IF read_expiry(cert).none THEN "unreadable"
  ELSE IF DaysLeft(read_expiry(cert)) < RENEW_DAYS THEN "warning"
  ELSE "ok"

\* status is called on a stored certificate, and issue without --force on the
\* same one with lego installed
CallStatus ==
  /\ fn = NoCall
  /\ \E cert \in StoredCerts :
        fn' = [op |-> "status", cert |-> cert, mark |-> status(cert),
               days |-> DaysLeft(read_expiry(cert)),
               outcome |-> issue(TRUE, cert, FALSE)]
  /\ UNCHANGED <<certs, scriptVars>>

\* get_target is called for one instance of a secrets file
CallGetTarget ==
  /\ fn = NoCall /\ svc = "traefik"
  /\ \E s \in SecretsFiles, i \in Names :
        fn' = [op |-> "get_target", secrets |-> s, instance |-> i,
               target |-> get_target(s, i)]
  /\ UNCHANGED <<certs, scriptVars>>

FnNext ==
  \/ CallBuildContext
  \/ CallGetTarget
  \/ CallIssue
  \/ CallStatus
  \/ CallGetRemotePath

FnSpec == Init /\ [][FnNext]_vars

\* ------------------------------------------- certs/deploy.py, the script
\* what main() is started on: the local store (no certificate, a certificate
\* without its key, one openssl cannot read, ones with 25, 30 and 45 days
\* left), with the mode lego gave the files, and lego installed or not
CertStores ==
  {[crt |-> [exists |-> FALSE, readable |-> FALSE, left |-> 0], key |-> FALSE],
   [crt |-> [exists |-> TRUE, readable |-> TRUE, left |-> 1080], key |-> FALSE],
   [crt |-> [exists |-> TRUE, readable |-> FALSE, left |-> 0], key |-> TRUE],
   [crt |-> [exists |-> TRUE, readable |-> TRUE, left |-> 600], key |-> TRUE],
   [crt |-> [exists |-> TRUE, readable |-> TRUE, left |-> 720], key |-> TRUE],
   [crt |-> [exists |-> TRUE, readable |-> TRUE, left |-> 1080], key |-> TRUE]}

\* the operator's machine as the script finds it
CertSetup(st0, lego, mode) ==
  /\ certs.pc = "idle" /\ ~certs.set
  /\ certs' = [certs EXCEPT !.set = TRUE, !.lego = lego,
                            !.store = [crt |-> st0.crt, key |-> st0.key,
                                       serial |-> 0, mode |-> mode]]
  /\ UNCHANGED <<fn, scriptVars>>

\* the process ends with the given status
CertEnded(c, code) == [c EXCEPT !.pc = "exited", !.exit = code]

\* main(), lines 213-231: the command line is parsed and the command called;
\* status prints and returns
certs_main(cmd, force, only) ==
  /\ certs.pc = "idle" /\ certs.set /\ certs.runs < MaxRuns
  /\ LET c == [certs EXCEPT !.runs = @ + 1, !.cmd = cmd, !.force = force,
                            !.only = only]
     IN certs' = IF cmd = "status" THEN CertEnded(c, "0")
                 ELSE IF cmd = "distribute" THEN [c EXCEPT !.pc = "distribute"]
                 ELSE [c EXCEPT !.pc = "issue"]
  /\ UNCHANGED <<fn, scriptVars>>

\* what the caller of issue does when issue has returned: `issue` is done,
\* `renew` goes on to distribute(secrets, hosts)
IssueReturns(c, how) ==
  IF c.cmd = "renew" THEN [c EXCEPT !.outcome = how, !.pc = "distribute"]
                     ELSE CertEnded([c EXCEPT !.outcome = how], "0")

\* issue, lines 73-92: lego is looked up and the stored certificate examined;
\* renew calls issue(secrets), without force
CertIssue ==
  /\ certs.pc = "issue"
  /\ LET how == issue(certs.lego, certs.store.crt, certs.cmd = "issue" /\ certs.force)
     IN certs' = IF how = "exit" THEN CertEnded([certs EXCEPT !.outcome = "failed"], "1")
                 ELSE IF how = "skipped" THEN IssueReturns(certs, "skipped")
                 ELSE [certs EXCEPT !.pc = "lego"]
  /\ UNCHANGED <<fn, scriptVars>>

\* the certificate lego stores: 90 days, with its key
Renewed(store) ==
  [store EXCEPT !.crt = [exists |-> TRUE, readable |-> TRUE, left |-> 2160],
                !.key = TRUE, !.serial = @ + 1]

\* issue, lines 94-138: the DoH proxy is started and lego run. The proxy can
\* fail to start (an uncaught exception), lego can fail, lego can store a new
\* certificate, and lego can return 0 having stored nothing
CertLego(res) ==
  /\ certs.pc = "lego"
  /\ certs' =
       IF res \in {"crash", "failed"}
         THEN CertEnded([certs EXCEPT !.outcome = "failed"], "1")
       ELSE IF res = "written"
         THEN IssueReturns([certs EXCEPT !.store = Renewed(@)], "issued")
       ELSE IF certs.store.crt.exists
         THEN IssueReturns(certs, "issued")
         ELSE CertEnded([certs EXCEPT !.outcome = "failed"], "1")
  /\ UNCHANGED <<fn, scriptVars>>

\* a distribute that does not look at the store
distribute_unchecked(store) == TRUE

\* distribute, line 146: `crt.exists() and key.exists()`
distribute_ready(store) == store.crt.exists /\ store.key

\* distribute, lines 152-159: the targets, all of them or the one asked for
\* (renew passes no host)
TargetsOf(c) ==
  IF c.cmd = "distribute" /\ c.only # "none"
    THEN SelectSeq(CertTargets, LAMBDA t : t.host = c.only)
    ELSE CertTargets

\* distribute, lines 141-159: the store and the targets are checked
CertDistributeBegin ==
  /\ certs.pc = "distribute"
  /\ certs' = IF ~distribute_ready(certs.store) \/ TargetsOf(certs) = <<>>
                THEN CertEnded(certs, "1")
                ELSE [certs EXCEPT !.pc = "target", !.targets = TargetsOf(certs),
                                   !.t = 1, !.step = "mkdir"]
  /\ UNCHANGED <<fn, scriptVars>>

\* the file of the store that is pushed: lego's text, time and mode
CertLocal(c, f) == File(<<f, c.store.serial>>, "past", c.store.mode)

\* distribute, lines 161-166: the directories are made on the target
CertMkdir ==
  /\ certs.pc = "target" /\ certs.step = "mkdir"
  /\ LET h == certs.targets[certs.t].host
     IN certs' = [certs EXCEPT !.ops[h] = Append(@, "mkdir"), !.changed = FALSE,
                               !.step = "crt"]
  /\ UNCHANGED <<fn, scriptVars>>

\* distribute, lines 170-180: the certificate, then the key, is synced and
\* what rsync_file returns printed and remembered
CertSync ==
  /\ certs.pc = "target" /\ certs.step \in CertFiles
  /\ LET h == certs.targets[certs.t].host
         f == certs.step
         local == CertLocal(certs, f)
         r == certs.remote[h][f]
         reaches == certs.up[h]
         res == rsync_file(local, r, reaches)
     IN certs' = [certs EXCEPT
                    !.ops[h] = Append(@, "rsync_" \o f),
                    !.remote[h][f] = rsync_result(local, r, reaches),
                    !.rep[h][f] = IF res THEN "updated" ELSE "unchanged",
                    !.got[h] = IF reaches THEN @ \cup {f} ELSE @,
                    !.changed = @ \/ res,
                    !.step = IF f = "crt" THEN "key" ELSE "chmod"]
  /\ UNCHANGED <<fn, scriptVars>>

\* distribute, line 182: `chmod 644 crt && chmod 600 key` through ssh_run
CertChmod ==
  /\ certs.pc = "target" /\ certs.step = "chmod"
  /\ LET h == certs.targets[certs.t].host
         crtOk == certs.up[h] /\ certs.remote[h]["crt"].exists
         keyOk == crtOk /\ certs.remote[h]["key"].exists
     IN certs' = [certs EXCEPT
                    !.ops[h] = Append(@, "chmod"),
                    !.remote[h]["crt"].mode = IF crtOk THEN "644" ELSE @,
                    !.remote[h]["key"].mode = IF keyOk THEN "600" ELSE @,
                    !.perms[h] = keyOk,
                    !.step = "post"]
  /\ UNCHANGED <<fn, scriptVars>>

\* a distribute that runs post_deploy whether or not something changed
post_deploy_always(c, tg) == "post_deploy" \in DOMAIN tg

\* distribute, line 184: `if changed and "post_deploy" in t`
post_deploy_due(c, tg) == c /\ "post_deploy" \in DOMAIN tg

\* distribute, lines 184-188: post_deploy when something changed and the
\* target has one; then the next target, or distribute returns
CertPostDeploy ==
  /\ certs.pc = "target" /\ certs.step = "post"
  /\ LET tg == certs.targets[certs.t]
         c == IF post_deploy_due(certs.changed, tg)
                THEN [certs EXCEPT !.ops[tg.host] = Append(@, "post_deploy")]
                ELSE certs
     IN certs' = IF certs.t = Len(certs.targets)
                   THEN CertEnded(c, "0")
                   ELSE [c EXCEPT !.t = @ + 1, !.step = "mkdir"]
  /\ UNCHANGED <<fn, scriptVars>>

\* the process is gone, and what it held and printed with it
CertExit ==
  /\ certs.pc = "exited"
  /\ certs' = [certs EXCEPT
                 !.pc = "idle", !.exit = "none", !.outcome = "none",
                 !.cmd = "status", !.force = FALSE, !.only = "none",
                 !.targets = <<>>, !.t = 0, !.step = "none", !.changed = FALSE,
                 !.ops = CertsIdle.ops, !.rep = CertsIdle.rep,
                 !.got = CertsIdle.got, !.perms = CertsIdle.perms]
  /\ UNCHANGED <<fn, scriptVars>>

\* a target stops or starts answering ssh: between two invocations, or while
\* it is the one being processed
CertNetFlap(h) ==
  /\ certs.set /\ certs.env < MaxEnv
  /\ \/ certs.pc = "idle"
     \/ certs.pc = "target" /\ certs.targets[certs.t].host = h
  /\ certs' = [certs EXCEPT !.up[h] = ~@, !.env = @ + 1]
  /\ UNCHANGED <<fn, scriptVars>>

\* The command lines tried: --force goes with issue and renew, a host with
\* distribute ("ghost" is in no target).
CertNext ==
  \/ \E st0 \in CertStores, lego \in BOOLEAN, mode \in {"600", "644"} :
        CertSetup(st0, lego, mode)
  \/ \E cmd \in {"status", "issue", "distribute", "renew"}, force \in BOOLEAN,
        only \in CertHosts \cup {"none", "ghost"} :
        /\ (force => cmd \in {"issue", "renew"})
        /\ (only # "none" => cmd = "distribute")
        /\ certs_main(cmd, force, only)
  \/ CertIssue
  \/ \E res \in {"crash", "failed", "written", "nothing"} : CertLego(res)
  \/ CertDistributeBegin
  \/ CertMkdir
  \/ CertSync
  \/ CertChmod
  \/ CertPostDeploy
  \/ CertExit
  \/ \E h \in CertHosts : CertNetFlap(h)

CertSpec == Init /\ [][CertNext]_vars

\* ----------------------------------------------------------------- claims
DeployList == IF svc = "traefik" THEN DeployFiles ELSE FILES
DiffList == IF svc = "traefik" THEN DiffFiles ELSE FILES
\* the raw secrets a deploy has to write
SecretsDue ==
  IF svc = "traefik" THEN Len(SecretFiles)
  ELSE IF "signing_key" \in DOMAIN synapse THEN Len(SynSecretFiles) ELSE 0
Count(h, o) == Len(SelectSeq(ops[h], LAMBDA x : x = o))
RestartCount(h) == Count(h, "restart")
AnyUpdated(h) == \E f \in FileNames : report[h][f] = "updated"
Deploying == args.command = "deploy" /\ pc # "idle"
DeployEnded(h) == Deploying /\ st[h] \in {"done", "crashed"}
DeployDone(h) == Deploying /\ st[h] = "done"

\* C1, as stated: in every deploy of an instance that has ended, restart_cmd
\* has run once if some file's sync reported a change and not at all otherwise.
C1_RestartIffChanged ==
  \A h \in Hosts :
    DeployEnded(h) => RestartCount(h) = (IF AnyUpdated(h) THEN 1 ELSE 0)

\* C1, amended: restart_cmd runs at most once per deploy of an instance; when
\* the deploy of the instance has ended, it has run exactly once if the deploy
\* ran to its end, some file's sync reported a change and --no-restart was not
\* given, and not at all otherwise (so not when --no-restart was given, and not
\* when an error cut the deploy short after a sync reported a change).
C1_RestartGating ==
  \A h \in Hosts :
    /\ Deploying => RestartCount(h) <= 1
    /\ Deploying /\ RestartCount(h) = 1 => AnyUpdated(h) /\ ~args.no_restart
    /\ DeployEnded(h) =>
         RestartCount(h) =
           (IF st[h] = "done" /\ AnyUpdated(h) /\ ~args.no_restart THEN 1 ELSE 0)

\* exactly one of the files was reported updated, and the one restart ran
C1_Witness ==
  \E h \in Hosts :
    /\ DeployDone(h)
    /\ Cardinality({f \in FileNames : report[h][f] = "updated"}) = 1
    /\ Cardinality({f \in FileNames : report[h][f] = "unchanged"}) = Len(DeployList) - 1
    /\ RestartCount(h) = 1

\* C2: a deploy of an instance that follows a complete deploy of it, with the
\* same secrets and templates and no other writer in between, reports every
\* file unchanged and runs no restart.
C2_Idempotent ==
  \A h \in Hosts :
    DeployDone(h) /\ preSynced[h] =>
      /\ \A f \in FileNames : report[h][f] = "unchanged"
      /\ RestartCount(h) = 0

\* C3: a synced file is reported updated exactly when the remote file differed
\* in content from the local artifact (a difference in mode or modification
\* time alone is reported unchanged).
C3_ContentOnly ==
  \A h \in Hosts, f \in FileNames :
    Deploying /\ report[h][f] # "none" /\ reached[h] =>
      (report[h][f] = "updated" <=> f \in differed[h])

\* C4: when deploy --all has ended and every template renders, every instance
\* has been attempted, whatever happened to the hosts of the others.
C4_AllAttempted ==
  Deploying /\ args.all /\ pc = "exited" /\ badTpl = "none" =>
    \A h \in Hosts : st[h] # "none"

\* C5: when the deploy of an instance has ended, normally or not, it has not
\* changed files of the host without running restart_cmd.
C5_NoHalfDeployed ==
  \A h \in Hosts :
    DeployEnded(h) => ~(wrote[h] # {} /\ RestartCount(h) = 0)

\* every raw secret write of h comes after the sync of every file of h
SecretsAfterFiles(h) ==
  \A k \in DOMAIN ops[h] :
    ops[h][k] = "secret" =>
      Cardinality({j \in 1..(k - 1) : ops[h][j] = "rsync"}) = Len(DeployList)

\* C6: every raw secret is written after the last file of the instance has
\* been synced, and a deploy that gets past the secrets has written every one of
\* them whether or not a file changed.
C6_SecretsUnconditional ==
  \A h \in Hosts :
    /\ Deploying => SecretsAfterFiles(h)
    /\ Deploying /\ st[h] = "running" /\ pc \in {"restart", "s_restart"} =>
         Count(h, "secret") = SecretsDue
    /\ DeployDone(h) =>
         /\ Count(h, "secret") = SecretsDue
         /\ SecretsDue > 0 => \A f \in SecretNames : remote[h][f].exists

\* a deploy in which no file differed and none was reported updated has
\* written the secrets all the same
C6_Witness ==
  \E h \in Hosts :
    /\ DeployDone(h) /\ preSame[h] /\ ~AnyUpdated(h) /\ differed[h] = {}
    /\ Count(h, "secret") = SecretsDue

\* C7: a deploy of an instance whose files already hold the rendered text
\* issues nothing to the host but the directory creation and the comparing
\* syncs: no secret write, no restart.
C7_NoSideEffects ==
  \A h \in Hosts :
    DeployDone(h) /\ preSame[h] =>
      \A k \in DOMAIN ops[h] : ops[h][k] \in {"mkdir", "rsync"}

\* C8: while diff runs, no remote file and no remote directory changes, and
\* the only operations issued to a host are reads.
C8_DiffReadOnly ==
  /\ [][args.command = "diff" /\ pc # "idle" => remote' = remote /\ dirs' = dirs]_vars
  /\ [](args.command = "diff" /\ pc # "idle" =>
          \A h \in Hosts : \A k \in DOMAIN ops[h] : ops[h][k] = "read")

\* a diff that has read the files of a deployed host and has ended
C8_Witness ==
  \E h \in Hosts :
    /\ args.command = "diff" /\ pc = "exited" /\ exit = "ok" /\ st[h] = "done"
    /\ Len(ops[h]) = Len(DiffList)
    /\ \E f \in FileNames : remote[h][f].exists

\* C9: in diff, a file that is absent on the host, or that cannot be read
\* because the host does not answer, reads as the empty text and is compared as
\* such with its artifact; no read ends the script (diff only ends in an error
\* when a template or a path cannot be computed), and a diff of an instance that
\* has ended has compared every one of its files.
C9_AbsentReadsEmpty ==
  args.command = "diff" /\ pc # "idle" =>
    /\ lastRead.file # "none" /\ ~lastRead.present =>
         /\ lastRead.text = Empty
         /\ report[lastRead.host][lastRead.file] =
              (IF Rendered(lastRead.file, lastRead.host) = Empty THEN "same" ELSE "differs")
    /\ exit = "crash" => err.kind \in {"render", "path"}
    /\ \A h \in Hosts :
         st[h] = "done" => \A k \in 1..Len(DiffList) : report[h][DiffList[k]] # "none"

\* a diff against a brand-new host has ended well, every file read as empty
C9_Witness ==
  \E h \in Hosts :
    /\ args.command = "diff" /\ pc = "exited" /\ exit = "ok" /\ st[h] = "done"
    /\ \A f \in FileNames : ~remote[h][f].exists
    /\ lastRead.text = Empty
    /\ \A k \in 1..Len(DiffList) : report[h][DiffList[k]] = "differs"

\* C10: a not-found error names the requested instance, lists the configured
\* instances, and comes before any remote operation of the invocation.
C10_NotFound ==
  err.kind = "notfound" =>
    /\ err.name = args.instance
    /\ err.avail = DOMAIN secrets.instances
    /\ \A h \in Hosts : ops[h] = <<>>

\* C11: for two secrets files that agree on `common` and on the block of an
\* instance, the context built for that instance is the same, and so is every
\* artifact rendered for it, whatever the blocks of the other instances hold.
C11_ContextIsolated ==
  (/\ fn.op = "build_context"
   /\ fn.s1.common = fn.s2.common
   /\ fn.s1.instances[fn.instance] = fn.s2.instances[fn.instance])
    => (fn.ctx1 = fn.ctx2 /\ fn.out1 = fn.out2)

\* two secrets files that differ in the other instance only have given the
\* same context
C11_Witness ==
  /\ fn.op = "build_context"
  /\ fn.s1.common = fn.s2.common
  /\ fn.s1.instances[fn.instance] = fn.s2.instances[fn.instance]
  /\ \E b \in Names \ {fn.instance} :
        /\ fn.s1.instances[b].domain # fn.s2.instances[b].domain
        /\ "ssh_user" \in DOMAIN fn.s1.instances[b]
  /\ fn.ctx1 = fn.ctx2 /\ fn.out1 = fn.out2

\* C12: the path of a file whose path is computed from synapse.server_name is
\* the data directory's <server_name>.log.config, and when the secrets hold no
\* server name the call ends with a configuration error.
C12_ResolverCorrect ==
  fn.op = "get_remote_path" /\ fn.tpl \in Computed =>
    IF "server_name" \in DOMAIN fn.synapse
      THEN /\ fn.raised = "none"
           /\ fn.path = <<"/opt/podman/synapse/data", fn.synapse.server_name, "log.config">>
      ELSE fn.raised = "ConfigurationError"

\* C13: in an invocation with --all no instance is processed twice (an
\* instance still to be processed has not been processed, and is listed once),
\* and when the invocation has ended the command has been applied to every key
\* of secrets['instances'] (every template being one that renders).
C13_EveryInstanceOnce ==
  args.all /\ args.command # "list" /\ pc # "idle" /\ badTpl = "none" =>
    /\ \A k \in DOMAIN queue :
         /\ st[queue[k]] = "none"
         /\ queue[k] # cur
         /\ \A j \in DOMAIN queue : j # k => queue[j] # queue[k]
    /\ pc = "exited" => \A h \in DOMAIN secrets.instances : st[h] # "none"

\* C14: when the secrets cannot be decrypted (sops fails or is not
\* installed) the invocation ends at once with the error printed and a non-zero
\* exit status: no instance is processed, nothing is rendered or read, and no
\* remote operation is issued.
C14_DecryptFailureStops ==
  sops # "ok" /\ pc # "idle" =>
    /\ pc = "exited" /\ ExitStatus(exit) # 0
    /\ err.kind = (IF sops = "missing" THEN "SOPS not installed"
                                      ELSE "SOPS decryption error")
    /\ \A h \in Hosts :
         /\ ops[h] = <<>> /\ st[h] = "none"
         /\ \A f \in FileNames : report[h][f] = "none"
    /\ lastRead = NoRead

\* a deploy of every instance, over hosts deployed before, has ended on the
\* missing sops
C14_Witness ==
  /\ sops = "missing" /\ pc = "exited"
  /\ args.command = "deploy"
  /\ \E h \in Hosts : synced[h]

\* C15, as stated: issue returns without a request exactly when --force is not
\* given and the certificate exists, its expiry can be read and more than 30
\* whole days remain; in every other case it requests the certificate.
C15_IssueSkipAsStated ==
  fn.op = "issue" =>
    IF ~fn.force /\ fn.cert.exists /\ fn.cert.readable /\ fn.cert.left \div 24 > 30
      THEN fn.outcome = "skipped"
      ELSE fn.outcome = "requested"

\* C15, amended: when lego is installed, issue returns without a request
\* exactly when --force is not given and the certificate exists, its expiry can
\* be read and more than 30 whole days remain, and in every other case it
\* requests the certificate; when lego is not installed it exits with an error
\* whatever the certificate, without a request.
C15_IssueSkip ==
  fn.op = "issue" =>
    IF ~fn.lego THEN fn.outcome = "exit"
    ELSE IF ~fn.force /\ fn.cert.exists /\ fn.cert.readable /\ fn.cert.left \div 24 > 30
      THEN fn.outcome = "skipped"
      ELSE fn.outcome = "requested"

\* a certificate with 45 days left has been left alone
C15_Witness ==
  /\ fn.op = "issue" /\ fn.lego /\ ~fn.force
  /\ fn.cert.readable /\ fn.cert.left \div 24 = 45
  /\ fn.outcome = "skipped"

\* C16: the target of an instance has the instance's ssh_port if it has one,
\* else the common block's, else 22; the instance's ssh_user if it has one, else
\* the common block's, else root; and always the instance's own domain as host.
C16_TargetPrecedence ==
  fn.op = "get_target" =>
    LET inst == fn.secrets.instances[fn.instance]
        common == fn.secrets.common
    IN /\ fn.target.port =
            (IF "ssh_port" \in DOMAIN inst THEN inst.ssh_port
             ELSE IF "ssh_port" \in DOMAIN common THEN common.ssh_port ELSE 22)
       /\ fn.target.user =
            (IF "ssh_user" \in DOMAIN inst THEN inst.ssh_user
             ELSE IF "ssh_user" \in DOMAIN common THEN common.ssh_user ELSE "root")
       /\ fn.target.host = inst.domain

\* instance and common block both give a port and a user, and the instance's won
C16_Witness ==
  /\ fn.op = "get_target"
  /\ {"ssh_port", "ssh_user"} \subseteq DOMAIN fn.secrets.instances[fn.instance]
  /\ {"ssh_port", "ssh_user"} \subseteq DOMAIN fn.secrets.common
  /\ fn.secrets.instances[fn.instance].ssh_port # fn.secrets.common.ssh_port
  /\ fn.target.port = fn.secrets.instances[fn.instance].ssh_port
  /\ fn.target.user = fn.secrets.instances[fn.instance].ssh_user

\* the remote operations of a complete deploy of an instance, in order
FullDeploy ==
  <<"mkdir">> \o [k \in 1..Len(DeployList) |-> "rsync"]
             \o [k \in 1..SecretsDue |-> "secret"] \o <<"restart">>

\* C17: in a deploy the operations issued to a host are a prefix of: the
\* directory creation, the sync of every file, the secret writes, the restart;
\* the files synced so far are the first ones of the declaration order; and
\* only the instance being processed is unfinished, the instances still to
\* come having seen no operation.
C17_TotalOrder ==
  Deploying =>
    \A h \in Hosts :
      /\ Len(ops[h]) <= Len(FullDeploy)
      /\ ops[h] = SubSeq(FullDeploy, 1, Len(ops[h]))
      /\ \A k \in 1..Len(DeployList) :
           report[h][DeployList[k]] # "none" <=> k <= Count(h, "rsync")
      /\ Count(h, "restart") = 1 => Count(h, "rsync") = Len(DeployList)
      /\ st[h] = "running" => h = cur
      /\ (\E k \in DOMAIN queue : queue[k] = h) => ops[h] = <<>> /\ st[h] = "none"

\* deploy --all has ended with every instance fully deployed and restarted
C17_Witness ==
  /\ Deploying /\ args.all /\ pc = "exited" /\ exit = "ok"
  /\ \A h \in Hosts : ops[h] = FullDeploy


\* C18: in a deploy, a file whose sync did not reach the host is reported as a
\* failure of that file, never as "unchanged" or "updated", and the files after
\* it are still attempted (when the instance's syncs are over every file of
\* the table has been synced).
C18_TransportFailureSurfaced ==
  Deploying =>
    \A h \in Hosts :
      /\ \A f \in lost[h] : report[h][f] \notin {"unchanged", "updated"}
      /\ lost[h] # {} /\ pc \in {"secrets", "s_secret", "restart", "s_restart", "exited"}
                     /\ exit # "crash" /\ st[h] # "none" /\ (h = cur \/ st[h] = "done")
           => Count(h, "rsync") = Len(DeployList)


\* C19: in a deploy whose template for some file does not render, that file is
\* never synced: no sync of it is reported, none was attempted for it on any
\* host, only the files declared before it have been synced, and the instance
\* that came to it ended there with an uncaught error (the render error, unless
\* resolving the file's remote path had raised first) instead of being done.
C19_RenderFailureBeforeSync ==
  Deploying /\ badTpl # "none" =>
    \A h \in Hosts :
      /\ report[h][badTpl] = "none"
      /\ badTpl \notin (differed[h] \cup wrote[h] \cup lost[h])
      /\ \A k \in 1..Len(DeployList) :
           DeployList[k] = badTpl => Count(h, "rsync") < k
      /\ st[h] # "done"
      /\ st[h] = "crashed" /\ Count(h, "rsync") < Len(DeployList)
                            /\ DeployList[Count(h, "rsync") + 1] = badTpl
           => /\ exit = "crash"
              /\ err.kind = IF svc = "synapse" /\ path_raises(badTpl, synapse)
                              THEN "path" ELSE "render"

\* a deploy synced the files before the broken template and then ended with
\* the render error
C19_Witness ==
  /\ Deploying /\ badTpl # "none" /\ pc = "exited"
  /\ exit = "crash" /\ err.kind = "render"
  /\ Count(cur, "rsync") >= 1
  /\ report[cur][badTpl] = "none"


\* the raw secrets a deploy writes, in order, and the text given for each
SecretList == IF svc = "traefik" THEN SecretFiles ELSE SynSecretFiles
GivenText(f) == IF svc = "traefik" THEN SecretText(f) ELSE synapse.signing_key
SecretWriteFailed(h) == st[h] = "crashed" /\ err.kind = "secret"

\* C20: in a deploy every secret write issued to a host either left the remote
\* file holding exactly the given text with mode 600, or was the last thing the
\* process did: it ended with an uncaught error and a non-zero status, without
\* going on to the restart; a host that was restarted, or whose deploy is
\* done, has every one of its secrets written.
C20_SecretWriteOrFatal ==
  Deploying =>
    \A h \in Hosts :
      LET n == Count(h, "secret")
      IN /\ \A k \in 1..n :
              k < n \/ ~SecretWriteFailed(h) =>
                remote[h][SecretList[k]] = File(GivenText(SecretList[k]), "now", "600")
         /\ SecretWriteFailed(h) =>
              /\ pc = "exited" /\ exit = "crash" /\ ExitStatus(exit) # 0
              /\ Count(h, "restart") = 0
              /\ n >= 1
         /\ Count(h, "restart") = 1 \/ st[h] = "done" =>
              n = SecretsDue /\ ~SecretWriteFailed(h)

\* the first secret of an instance was written and the write of the second
\* failed
C20_Witness ==
  /\ Deploying /\ svc = "traefik" /\ cur \in Hosts
  /\ SecretWriteFailed(cur) /\ Count(cur, "secret") = 2
  /\ remote[cur]["cf_email"] = File(secrets.common.cf_email, "now", "600")
  /\ remote[cur]["cf_token"] # File(secrets.common.cf_api_token, "now", "600")


\* the operation o is issued to h by the step
Issued(h, o) == ops'[h] = Append(ops[h], o)

\* C21: a step that runs a command on a host that does not carry it out (the
\* mkdir or the restart of a deploy) raises nothing: the SSH error is shown
\* for the instance, no remote file is touched, and the script goes on to its
\* next step. For the restart: it had not been issued to the host before in
\* the invocation, the files this invocation wrote stay as written, the
\* instance is done and the script moves to the next instance or ends
\* normally.
C21_SshFailureReported ==
  [][\A h \in Hosts :
       /\ Issued(h, "mkdir") /\ ~ssh_run_ok(h) =>
            /\ err'.kind = "ssh" /\ err'.name = cur
            /\ remote' = remote
            /\ pc' \in {"sync", "s_sync"} /\ exit' = exit
       /\ Issued(h, "restart") /\ ~ssh_run_ok(h) =>
            /\ err'.kind = "ssh" /\ err'.name = cur
            /\ remote' = remote
            /\ \A f \in wrote[h] : remote'[h][f] = File(Rendered(f, cur), "now", LocalMode)
            /\ Count(h, "restart") = 0
            /\ st'[cur] = "done"
            /\ IF queue = <<>> THEN pc' = "exited" /\ exit' = "ok"
                                ELSE pc' = "main" /\ exit' = exit
  ]_vars

\* the restart of an instance whose files were updated was issued while the
\* host did not answer, and the script ended normally
C21_Witness ==
  /\ Deploying /\ cur \in Hosts /\ ~up[cur]
  /\ Count(cur, "restart") = 1 /\ wrote[cur] # {}
  /\ err.kind = "ssh" /\ err.name = cur
  /\ pc = "exited" /\ exit = "ok"


\* C22: a deploy of an instance for which the diff just before it found no
\* difference (nothing having happened in between) reports no file updated
\* and runs no restart.
C22_DiffPreviewsDeploy ==
  Deploying =>
    \A h \in clean :
      /\ \A f \in FileNames : report[h][f] # "updated"
      /\ Count(h, "restart") = 0


\* C23: when the last deploy of an instance wrote a file on its host and ended
\* without the restart, the next deploy of the instance without --no-restart
\* (same secrets and templates, nobody else having touched the host's files),
\* once it has ended, has run restart_cmd.
C23_PendingActivated ==
  Deploying /\ ~args.no_restart =>
    \A h \in pending : DeployEnded(h) => Count(h, "restart") = 1


\* C25: for a stored certificate whose expiry can be read, status marks it
\* with the warning exactly when issue without --force requests a new one.
C25_ThresholdAgrees ==
  fn.op = "status" /\ fn.cert.exists /\ fn.cert.readable =>
    (fn.mark = "warning" <=> fn.outcome = "requested")


\* the post_deploy commands issued to h in the running invocation
Posts(h) == Len(SelectSeq(certs.ops[h], LAMBDA o : o = "post_deploy"))
\* distribute is through with target h
TargetDone(h) ==
  \E k \in DOMAIN certs.targets :
    /\ certs.targets[k].host = h
    /\ k < certs.t \/ (certs.pc = "exited" /\ certs.exit = "0")
\* the target h has a post_deploy command
HasPostDeploy(h) ==
  \E k \in DOMAIN CertTargets :
    CertTargets[k].host = h /\ "post_deploy" \in DOMAIN CertTargets[k]

\* C24, as stated: in distribute, a target that is done has seen post_deploy
\* once if it defines one and the sync of the certificate or of the key
\* reported a change, and not at all otherwise; and post_deploy is issued to a
\* host only when both files have been synced to it and their permissions set.
C24_PostDeployAsStated ==
  \A h \in CertHosts :
    /\ TargetDone(h) =>
         Posts(h) = IF HasPostDeploy(h) /\ \E f \in CertFiles : certs.rep[h][f] = "updated"
                      THEN 1 ELSE 0
    /\ Posts(h) >= 1 => certs.got[h] = CertFiles /\ certs.perms[h]

\* C24: in distribute, a target that is done has seen post_deploy once if it
\* defines one and the sync of the certificate or of the key reported a
\* change, and not at all otherwise; and post_deploy is issued to a host only
\* after the directory creation, the sync of the certificate, the sync of the
\* key and the permission command have been issued to it, in that order.
C24_PostDeploy ==
  \A h \in CertHosts :
    /\ TargetDone(h) =>
         Posts(h) = IF HasPostDeploy(h) /\ \E f \in CertFiles : certs.rep[h][f] = "updated"
                      THEN 1 ELSE 0
    /\ Posts(h) <= 1
    /\ \A k \in DOMAIN certs.ops[h] :
         certs.ops[h][k] = "post_deploy" =>
           /\ k = 5
           /\ SubSeq(certs.ops[h], 1, 4) = <<"mkdir", "rsync_crt", "rsync_key", "chmod">>
           /\ \A f \in CertFiles : certs.rep[h][f] # "none"

\* a distribute to both targets has ended: both reported a change, the one
\* with a post_deploy command has seen it once after both files reached it
\* and their modes were set, the other has not
C24_Witness ==
  /\ certs.pc = "exited" /\ certs.exit = "0" /\ Len(certs.targets) = 2
  /\ Posts("web") = 1 /\ certs.got["web"] = CertFiles /\ certs.perms["web"]
  /\ Posts("mail") = 0 /\ certs.rep["mail"]["crt"] = "updated"

\* some remote operation has been issued by the running distribute
RemoteOpIssued == \E h \in CertHosts : certs.ops[h] # <<>>

\* C26: distribute issues no remote operation unless the certificate and the
\* key both exist in the local store; in renew the distribution step is
\* entered only when issue has returned, having issued or having skipped a
\* certificate that is still valid; and when issuance failed the process has
\* ended with status 1 and no remote operation was issued.
C26_NoPushFromFailedIssue ==
  /\ RemoteOpIssued => certs.store.crt.exists /\ certs.store.key
  /\ certs.cmd = "renew" /\ (certs.pc \in {"distribute", "target"} \/ RemoteOpIssued)
       => certs.outcome \in {"issued", "skipped"}
  /\ certs.outcome = "failed"
       => certs.pc = "exited" /\ certs.exit = "1" /\ ~RemoteOpIssued
  /\ certs.pc \in {"issue", "lego"} => ~RemoteOpIssued

\* renew on an empty store: lego stored a certificate and its key, issue
\* returned, and distribute pushed them to both targets
C26_Witness ==
  /\ certs.cmd = "renew" /\ certs.outcome = "issued" /\ certs.store.serial = 1
  /\ certs.pc = "exited" /\ certs.exit = "0"
  /\ \A h \in CertHosts : certs.got[h] = CertFiles

====
